---- MODULE Spec2Model ----
(***************************************************************************)
(* Model of the Connection class of src/src/lib/connection.js: one         *)
(* connection manager, the sockets it creates, the login requests it has   *)
(* in flight and the callers and transport that drive it.                  *)
(*                                                                         *)
(* Every method of the class is an operator on a record `s` holding the    *)
(* object's fields (and the effects of the running handler: emitted        *)
(* signals, issued requests, frames handed to the socket).  An action      *)
(* takes the record of the current state (This), applies the handler and   *)
(* commits the resulting record (Commit).                                  *)
(***************************************************************************)
EXTENDS Integers, Sequences, FiniteSets, TLC

\* ------------------------------------------------------------------ bounds
MaxRetriesOption == 2   \* options.maxRetries is drawn from 0..MaxRetriesOption
MaxCount == 3           \* cap on the retry counter (_retries)
MaxStreams == 2         \* cap on the number of sockets ever created
MaxLogins == 2          \* cap on the number of login requests ever issued

\* ------------------------------------------------------------- JS values
Null == "<null>"
Undefined == "<undefined>"
NullSocket == 0
NullValue == [t |-> "null"]
Obj(f) == [t |-> "obj", f |-> f, cyclic |-> FALSE]
CyclicObj(f) == [t |-> "obj", f |-> f, cyclic |-> TRUE]
\* a string whose content is the JSON encoding of v
JSONText(v) == [t |-> "str", valid |-> TRUE, val |-> v]
\* a string that is not JSON
PlainText(raw) == [t |-> "str", valid |-> FALSE, val |-> raw]

hasOwnProperty(o, k) == k \in DOMAIN o.f
Get(o, k) == IF k \in DOMAIN o.f THEN o.f[k] ELSE Undefined
\* data && typeof data === 'object'
IsObject(d) == d.t = "obj"
\* typeof v === 'string' for a field value
IsString(v) == v \notin {Null, Undefined}
\* String.prototype.trim on the field values used here
trim(str) == IF str \in {"", " ", "  "} THEN "" ELSE str

\* JSON.parse: the value a JSON text encodes; throws on a text that is not JSON
JSONparseThrows(d) == d.valid = FALSE
JSONparse(d) == d.val
\* JSON.stringify: throws on a cyclic structure
JSONstringifyThrows(d) == d.t = "obj" /\ d.cyclic = TRUE
JSONstringify(d) == JSONText(d)

\* ---------------------------------------------------- token sequences
\* Paths and addresses are sequences of tokens ("/" and path segments).
RECURSIVE IndexFrom(_, _, _)
IndexFrom(str, needle, i) ==
  IF i + Len(needle) - 1 > Len(str) THEN 0
  ELSE IF SubSeq(str, i, i + Len(needle) - 1) = needle THEN i
  ELSE IndexFrom(str, needle, i + 1)
\* String.prototype.includes
includes(str, needle) == IndexFrom(str, needle, 1) # 0
\* String.prototype.replace with a string pattern: first occurrence only
replace(str, needle, by) ==
  LET i == IndexFrom(str, needle, 1)
  IN IF i = 0 THEN str
     ELSE SubSeq(str, 1, i - 1) \o by \o SubSeq(str, i + Len(needle), Len(str))

\* --------------------------------------------------------------- state
VARIABLES
  options,          \* this.options (never assigned after construction)
  constructed,      \* FALSE until the constructor has run reconnect(true)
  shouldDisconnect, connected, socket, lastMessage, isConnecting,
  fetchReady,       \* this._fetchReady
  authenticated,    \* this._authenticated
  retries,          \* this._retries
  connection,       \* this._connection
  self,             \* this._self
  token,            \* this._token
  hasListeners,     \* FALSE once removeAllListeners() has run
  sockets,          \* every WebSocket created so far: [state, attached]
  pendingLogins,    \* login requests whose promise has not settled
  loginsIssued,     \* number of login requests issued so far
  last,             \* the last call or event handled and its effects
  hist              \* history of the run (what has happened so far)

vars == <<options, constructed, shouldDisconnect, connected, socket,
          lastMessage, isConnecting, fetchReady, authenticated, retries,
          connection, self, token, hasListeners, sockets, pendingLogins,
          loginsIssued, last, hist>>

EmptyToken == [kind |-> "", token |-> ""]

\* delivered: the emitted signals that listeners were still registered for;
\* released: removeAllListeners() was called
NoEffects == [emits |-> <<>>, delivered |-> <<>>, requests |-> <<>>,
              sent |-> <<>>, closes |-> <<>>, released |-> FALSE,
              result |-> "none"]

NoHist == [disconnectCalled |-> FALSE, stopped |-> FALSE,
           loginFailed |-> FALSE, loginTok |-> "", replaced |-> FALSE]

\* The manager as one record: its fields, and the effects of the handler
\* that is running (empty when the handler starts).
This ==
  [options |-> options, shouldDisconnect |-> shouldDisconnect,
   connected |-> connected, socket |-> socket, lastMessage |-> lastMessage,
   isConnecting |-> isConnecting, fetchReady |-> fetchReady,
   authenticated |-> authenticated, retries |-> retries,
   connection |-> connection, self |-> self, token |-> token,
   hasListeners |-> hasListeners, sockets |-> sockets,
   pendingLogins |-> pendingLogins, loginsIssued |-> loginsIssued,
   hist |-> hist, out |-> NoEffects]

WithinBounds(s) ==
  /\ s.retries <= MaxCount
  /\ Len(s.sockets) <= MaxStreams
  /\ s.loginsIssued <= MaxLogins

Commit(s, op, arg) ==
  /\ WithinBounds(s)
  /\ shouldDisconnect' = s.shouldDisconnect
  /\ connected' = s.connected
  /\ socket' = s.socket
  /\ lastMessage' = s.lastMessage
  /\ isConnecting' = s.isConnecting
  /\ fetchReady' = s.fetchReady
  /\ authenticated' = s.authenticated
  /\ retries' = s.retries
  /\ connection' = s.connection
  /\ self' = s.self
  /\ token' = s.token
  /\ hasListeners' = s.hasListeners
  /\ sockets' = s.sockets
  /\ pendingLogins' = s.pendingLogins
  /\ loginsIssued' = s.loginsIssued
  /\ hist' = s.hist
  /\ last' = [op |-> op, arg |-> arg, out |-> s.out]
  /\ UNCHANGED options

\* ----------------------------------------------------------- effects
emit(s, sig) ==
  [s EXCEPT !.out.emits = Append(@, sig),
            !.out.delivered = IF s.hasListeners THEN Append(@, sig) ELSE @]

\* buildURI('http') for hostname "host", port 80, version "v1", no TLS
httpURI == <<"http://host", "/", "signalk", "/", "v1", "/", "api">>

LoginPath == <<"/", "auth", "/", "login">>

\* `${this._token.kind} ${this._token.token}`
AuthorizationHeader(tok) == <<tok.kind, " ", tok.token>>

\* path.charAt(0) !== '/'  =>  path = `/${path}`
NormalizePath(path) ==
  IF Len(path) = 0 \/ path[1] # "/" THEN <<"/">> \o path ELSE path

\* !path.includes('auth/login')
IsLoginPath(path) == includes(path, <<"auth", "/", "login">>)

\* this._authenticated === true && !path.includes('auth/login')
InjectsAuthorization(s, path) ==
  s.authenticated = TRUE /\ ~IsLoginPath(path)

DefaultHeaders == [Accept |-> "application/json",
                   ContentType |-> "application/json"]

\* the three fixed address rewrites of fetch
RewriteURI(uri) ==
  LET u1 == replace(uri, <<"/", "api", "/", "auth", "/", "login">>,
                         <<"/", "auth", "/", "login">>)
      u2 == replace(u1, <<"/", "api", "/", "access", "/", "requests">>,
                        <<"/", "access", "/", "requests">>)
      u3 == replace(u2, <<"/", "signalk", "/", "v1", "/", "api", "/", "security">>,
                        <<"/", "security">>)
  IN u3

\* The options argument of fetch: given is FALSE when the caller passes no
\* options object, hasHeaders is FALSE when it carries no headers object.
Opts(method, hasHeaders, headers, credentialed) ==
  [given |-> TRUE, method |-> method, hasHeaders |-> hasHeaders,
   headers |-> headers, credentialed |-> credentialed]
NoOpts ==
  [given |-> FALSE, method |-> Undefined, hasHeaders |-> FALSE,
   headers |-> DefaultHeaders, credentialed |-> FALSE]

\* The request fetch() hands to the request transport (lines 295-342).
FetchRequest(s, rawPath, opts) ==
  LET path == NormalizePath(rawPath)
      method == IF opts.given THEN opts.method ELSE "GET"
      headers0 == IF opts.given /\ opts.hasHeaders THEN opts.headers
                  ELSE DefaultHeaders
      inject == InjectsAuthorization(s, path)
      headers == IF inject
                 THEN ("Authorization" :> AuthorizationHeader(s.token)) @@ headers0
                 ELSE headers0
  IN [method |-> method, path |-> path, headers |-> headers,
      credentialed |-> (inject \/ (opts.given /\ opts.credentialed)),
      uri |-> RewriteURI(httpURI \o path)]

fetch(s, rawPath, opts) ==
  [s EXCEPT !.out.requests = Append(@, FetchRequest(s, rawPath, opts))]

\* new WebSocket(this.wsURI) and the four addEventListener calls
initiateSocket(s) ==
  [s EXCEPT !.sockets = Append(@, [state |-> "connecting", attached |-> TRUE]),
            !.socket = Len(s.sockets) + 1]

\* this.socket.close(): the socket starts closing; its close event follows
socketClose(s) ==
  [s EXCEPT !.sockets[s.socket].state =
               IF @ \in {"connecting", "open"} THEN "closing" ELSE @,
            !.out.closes = Append(@, s.socket)]

\* mutant: the cleanup also clears the disconnect intent
cleanupListeners_Mut(s) ==
  [s EXCEPT !.authenticated = FALSE,
            !.token = EmptyToken,
            !.hasListeners = FALSE,
            !.out.released = TRUE,
            !.shouldDisconnect = FALSE,
            !.hist.stopped = TRUE,
            !.hist.loginTok = "",
            !.hist.replaced = FALSE]

\* mutant: the cleanup keeps the credential
cleanupListeners_KeepsAuth(s) ==
  [s EXCEPT !.hasListeners = FALSE,
            !.out.released = TRUE,
            !.hist.stopped = TRUE,
            !.hist.loginTok = "",
            !.hist.replaced = FALSE]

cleanupListeners(s) ==
  [s EXCEPT !.authenticated = FALSE,
            !.token = EmptyToken,
            !.hasListeners = FALSE,
            !.out.released = TRUE,
            !.hist.stopped = TRUE,
            !.hist.loginTok = "",
            !.hist.replaced = FALSE]

\* ------------------------------------------------------------ reconnect
\* mutant: no re-entrancy guard
ReconnectDropped_Mut(s) == FALSE

\* this.isConnecting === true: the call is dropped
ReconnectDropped(s) == s.isConnecting = TRUE

\* mutant: the limit is tested with >=
StopsOnMaxRetries_Mut(s, initial) ==
  initial # TRUE /\ s.retries >= s.options.maxRetries

\* initial !== true && this._retries === this.options.maxRetries
StopsOnMaxRetries(s, initial) ==
  initial # TRUE /\ s.retries = s.options.maxRetries

\* initial !== true && this.options.reconnect === false
StopsOnNoReconnect(s, initial) ==
  initial # TRUE /\ s.options.reconnect = FALSE

\* mutant: the disconnect intent is not looked at
StopsOnShouldDisconnect_Mut(s, initial) == FALSE

\* initial !== true && this.shouldDisconnect === true
StopsOnShouldDisconnect(s, initial) ==
  initial # TRUE /\ s.shouldDisconnect = TRUE

\* the body of the login request
AuthRequest == Opts("POST", FALSE, DefaultHeaders, TRUE)

\* lines 138-159: mark connecting, then open the stream directly or issue
\* the login request (its promise settles in LoginSettled)
StartAttempt(s) ==
  LET s1 == [s EXCEPT !.fetchReady = FALSE,
                      !.shouldDisconnect = FALSE,
                      !.isConnecting = TRUE]
  IN IF s1.options.useAuthentication = FALSE
     THEN initiateSocket(emit([s1 EXCEPT !.fetchReady = TRUE], "fetchReady"))
     ELSE [fetch(s1, LoginPath, AuthRequest)
             EXCEPT !.pendingLogins = @ + 1, !.loginsIssued = @ + 1]

\* mutant: the retry limit is tested after the other two stop conditions
reconnect_Mut(s, initial) ==
  IF ReconnectDropped(s) THEN s
  ELSE IF s.socket # NullSocket THEN socketClose(s)
  ELSE IF StopsOnNoReconnect(s, initial) THEN cleanupListeners(s)
  ELSE IF StopsOnShouldDisconnect(s, initial) THEN cleanupListeners(s)
  ELSE IF StopsOnMaxRetries(s, initial)
       THEN cleanupListeners(emit(s, "hitMaxRetries"))
  ELSE StartAttempt(s)

reconnect(s, initial) ==
  IF ReconnectDropped(s) THEN s
  ELSE IF s.socket # NullSocket THEN socketClose(s)
  ELSE IF StopsOnMaxRetries(s, initial)
       THEN cleanupListeners(emit(s, "hitMaxRetries"))
  ELSE IF StopsOnNoReconnect(s, initial) THEN cleanupListeners(s)
  ELSE IF StopsOnShouldDisconnect(s, initial) THEN cleanupListeners(s)
  ELSE StartAttempt(s)

\* mutant: disconnect marks the manager disconnected itself
disconnect_Mut(s) ==
  reconnect([s EXCEPT !.shouldDisconnect = TRUE,
                      !.connected = FALSE,
                      !.hist.disconnectCalled = TRUE], FALSE)

disconnect(s) ==
  reconnect([s EXCEPT !.shouldDisconnect = TRUE,
                      !.hist.disconnectCalled = TRUE], FALSE)

\* ---------------------------------------------------------------- login
\* this._bearerTokenPrefix = this.options.bearerTokenPrefix || 'Bearer'
bearerTokenPrefix(s) ==
  IF s.options.bearerTokenPrefix \in {Undefined, Null, ""} THEN "Bearer"
  ELSE s.options.bearerTokenPrefix

\* The promise fetch() returns (lines 342-355) for a response of the request
\* transport: resp is [failed, ok, ctype, body]; failed is a request that
\* never got a response.
FetchRejects(resp) ==
  \/ resp.failed
  \/ ~resp.ok
  \/ resp.ctype = "none"     \* type is null: type.includes throws
FetchValue(resp) == resp.body

\* History: hist.loginTok is the token of the latest login response that
\* carried no non-empty string type, hist.replaced tells whether the
\* credential has been set again since (both are reset by cleanupListeners).
HasNoType(result) ==
  ~(IsString(Get(result, "type")) /\ Get(result, "type") # "")
RecordLogin(s, result) ==
  IF HasNoType(result)
  THEN [s EXCEPT !.hist.loginTok = Get(result, "token"), !.hist.replaced = FALSE]
  ELSE [s EXCEPT !.hist.replaced = TRUE]

\* mutant: the token field is not required
LoginResultOk_Mut(result) == IsObject(result)

\* !(!result || typeof result !== 'object' || !result.hasOwnProperty('token'))
LoginResultOk(result) == IsObject(result) /\ hasOwnProperty(result, "token")

\* mutant: no fallback to the default label
TokenKind_Mut(s, result) == Get(result, "type")

\* (typeof result.type === 'string' && result.type.trim() !== '')
\*    ? result.type : this._bearerTokenPrefix
TokenKind(s, result) ==
  LET type == Get(result, "type")
  IN IF IsString(type) /\ trim(type) # "" THEN type ELSE bearerTokenPrefix(s)

\* .then handler of the login request, lines 160-176
\* mutant: the disconnect intent is checked before the stream is opened
LoginSucceeded_Mut(s, result) ==
  LET s1 == [s EXCEPT !.authenticated = TRUE,
                      !.token = [kind |-> TokenKind(s, result),
                                 token |-> Get(result, "token")],
                      !.fetchReady = TRUE]
      s2 == emit(RecordLogin(s1, result), "fetchReady")
  IN IF s.shouldDisconnect = TRUE THEN [s2 EXCEPT !.isConnecting = FALSE]
     ELSE initiateSocket(s2)

LoginSucceeded(s, result) ==
  LET s1 == [s EXCEPT !.authenticated = TRUE,
                      !.token = [kind |-> TokenKind(s, result),
                                 token |-> Get(result, "token")],
                      !.fetchReady = TRUE]
  IN initiateSocket(emit(RecordLogin(s1, result), "fetchReady"))

\* mutant: a failed login clears the connecting flag
LoginFailed_Mut(s) ==
  [emit(s, "error") EXCEPT !.hist.loginFailed = TRUE, !.isConnecting = FALSE]

\* .catch handler of the login request, lines 177-181 (the error is thrown
\* again into a promise nobody holds)
LoginFailed(s) ==
  [emit(s, "error") EXCEPT !.hist.loginFailed = TRUE]

\* the login promise chain of reconnect, lines 159-181
LoginSettled(s, resp) ==
  LET s1 == [s EXCEPT !.pendingLogins = @ - 1]
  IN IF FetchRejects(resp) THEN LoginFailed(s1)
     ELSE IF LoginResultOk(FetchValue(resp)) THEN LoginSucceeded(s1, FetchValue(resp))
     ELSE LoginFailed(s1)

\* mutant: injecting a credential also triggers a reconnect
setAuthenticated_Mut(s, tok, kind) ==
  reconnect([emit(s, "fetchReady") EXCEPT !.authenticated = TRUE,
                                          !.token = [kind |-> kind, token |-> tok],
                                          !.hist.replaced = TRUE], FALSE)

setAuthenticated(s, tok, kind) ==
  [emit(s, "fetchReady") EXCEPT !.authenticated = TRUE,
                                !.token = [kind |-> kind, token |-> tok],
                                !.hist.replaced = TRUE]

\* ------------------------------------------------------ transport events
\* set self (data)
SetSelf(s, data) ==
  [(IF data # Null THEN emit(s, "self") ELSE s) EXCEPT !.self = data]

\* set connectionInfo (data); data is an object here
SetConnectionInfo(s, data) ==
  SetSelf([emit(s, "connectionInfo") EXCEPT !.connection = data],
          Get(data, "self"))

\* mutant: the roles key is not required
IsHandshake_Mut(data) ==
  /\ IsObject(data)
  /\ hasOwnProperty(data, "name")
  /\ hasOwnProperty(data, "version")

\* data && typeof data === 'object' && data.hasOwnProperty('name') && ...
IsHandshake(data) ==
  /\ IsObject(data)
  /\ hasOwnProperty(data, "name")
  /\ hasOwnProperty(data, "version")
  /\ hasOwnProperty(data, "roles")

\* lines 214-222: the frame, parsed when it is a string that parses
ParseFrame(data) ==
  IF data.t = "str" /\ ~JSONparseThrows(data) THEN JSONparse(data) ELSE data

\* Date.now(): some time at or after the epoch
Now == 1

onWSMessage(s, evtData) ==
  LET data == ParseFrame(evtData)
      s1 == [s EXCEPT !.lastMessage = Now]
      s2 == IF IsHandshake(data) THEN SetConnectionInfo(s1, data) ELSE s1
  IN emit(s2, "message")

\* mutant: a successful open resets the retry counter
onWSOpen_Mut(s) ==
  emit([s EXCEPT !.connected = TRUE, !.isConnecting = FALSE, !.retries = 0],
       "connect")

onWSOpen(s) ==
  emit([s EXCEPT !.connected = TRUE, !.isConnecting = FALSE], "connect")

\* mutant: a transport error marks the manager disconnected
onWSError_Mut(s) ==
  reconnect(emit([s EXCEPT !.retries = @ + 1, !.connected = FALSE], "error"),
            FALSE)

onWSError(s) ==
  reconnect(emit([s EXCEPT !.retries = @ + 1], "error"), FALSE)

\* line 246 throws when this.socket is null: nothing after it runs
onWSClose(s) ==
  IF s.socket = NullSocket THEN [s EXCEPT !.out.result = "throws"]
  ELSE LET s1 == [s EXCEPT !.sockets[s.socket].attached = FALSE,
                           !.connected = FALSE,
                           !.isConnecting = FALSE,
                           !.socket = NullSocket,
                           !.retries = @ + 1]
       IN reconnect(emit(s1, "disconnect"), FALSE)

\* ----------------------------------------------------------------- send
\* mutant: the connection check is missing
NotConnected_Mut(s) == FALSE

\* this.connected !== true || this.socket === null
NotConnected(s) == s.connected # TRUE \/ s.socket = NullSocket

\* this.useAuthentication === true: the object has no such property (the
\* constructor stores the flag in this.options only), so this is undefined
ThisUseAuthenticationIsTrue(s) == FALSE

\* isObj && this.useAuthentication === true && this._authenticated === true
InjectsToken(s, isObj) ==
  isObj /\ ThisUseAuthenticationIsTrue(s) /\ s.authenticated = TRUE

send(s, data0) ==
  IF NotConnected(s)
  THEN [s EXCEPT !.out.result = "rejected: Not connected to WebSocket"]
  ELSE
    LET data1 == IF data0.t = "str" /\ ~JSONparseThrows(data0)
                 THEN JSONparse(data0) ELSE data0
        isObj == IsObject(data1)
        data2 == IF InjectsToken(s, isObj)
                 THEN [data1 EXCEPT !.f = ("token" :> s.token.token) @@ @]
                 ELSE data1
    IN IF isObj /\ JSONstringifyThrows(data2)
       THEN [s EXCEPT !.out.result = "rejected: stringify"]
       ELSE IF s.socket = NullSocket
       THEN [s EXCEPT !.out.result = "throws"]
       ELSE [s EXCEPT !.out.sent =
                         Append(@, IF isObj THEN JSONstringify(data2) ELSE data2),
                      !.out.result = "undefined"]

\* ------------------------------------------------------------- actions
\* (the token-type label is only read when a login succeeds)
OptionSets ==
  { o \in [maxRetries : 0..MaxRetriesOption, reconnect : BOOLEAN,
           useAuthentication : BOOLEAN, bearerTokenPrefix : {Undefined, "Token"}] :
      o.useAuthentication = FALSE => o.bearerTokenPrefix = Undefined }

\* constructor, lines 19-44: the fields before reconnect(true) runs
Init ==
  /\ options \in OptionSets
  /\ constructed = FALSE
  /\ shouldDisconnect = FALSE
  /\ connected = FALSE
  /\ socket = NullSocket
  /\ lastMessage = -1
  /\ isConnecting = FALSE
  /\ fetchReady = FALSE
  /\ authenticated = FALSE
  /\ retries = 0
  /\ connection = NullValue
  /\ self = ""
  /\ token = EmptyToken
  /\ hasListeners = TRUE
  /\ sockets = <<>>
  /\ pendingLogins = 0
  /\ loginsIssued = 0
  /\ last = [op |-> "new", arg |-> Undefined, out |-> NoEffects]
  /\ hist = NoHist

\* mutant: the constructor calls reconnect() without the initial flag
Construct_Mut ==
  /\ constructed = FALSE
  /\ constructed' = TRUE
  /\ Commit(reconnect(This, FALSE), "constructor", Undefined)

\* constructor, line 46
Construct ==
  /\ constructed = FALSE
  /\ constructed' = TRUE
  /\ Commit(reconnect(This, TRUE), "constructor", Undefined)

\* a caller invokes reconnect() (initial defaults to false)
Reconnect ==
  /\ constructed
  /\ UNCHANGED constructed
  /\ Commit(reconnect(This, FALSE), "reconnect", Undefined)

\* a caller invokes disconnect()
Disconnect ==
  /\ constructed
  /\ UNCHANGED constructed
  /\ Commit(disconnect(This), "disconnect", Undefined)

\* ---- inputs
Tokens == {"xyz"}
Kinds == {"JWT", "Bearer"}

HttpResponse(ok, ctype, body) ==
  [failed |-> FALSE, ok |-> ok, ctype |-> ctype, body |-> body]

LoginResponses ==
  { [failed |-> TRUE, ok |-> FALSE, ctype |-> "none", body |-> NullValue],
    HttpResponse(FALSE, "json", Obj([message |-> "Unauthorized"])),
    HttpResponse(TRUE, "text", PlainText("OK")),
    HttpResponse(TRUE, "json", NullValue),
    HttpResponse(TRUE, "json", Obj([type |-> "JWT"])),
    HttpResponse(TRUE, "json", Obj([token |-> "abc"])),
    HttpResponse(TRUE, "json", Obj([token |-> "abc", type |-> " "])),
    HttpResponse(TRUE, "json", Obj([token |-> "xyz", type |-> "JWT"])) }

HandshakeFields ==
  [name |-> "signalk", version |-> "1.0", roles |-> "master"]

Frames ==
  { JSONText(Obj(HandshakeFields @@ [self |-> "vessels.urn:mrn:imo:mmsi:1234"])),
    JSONText(Obj(HandshakeFields @@ [self |-> Null])),
    JSONText(Obj(HandshakeFields)),
    JSONText(Obj([name |-> "signalk", version |-> "1.0", self |-> "vessels.x"])),
    JSONText(NullValue),
    PlainText("hello") }

SendData ==
  { Obj([context |-> "vessels.self"]),
    CyclicObj([context |-> "vessels.self"]),
    JSONText(Obj([context |-> "vessels.self"])),
    PlainText("hello") }

FetchPaths ==
  { <<"/", "vessels">>, <<"vessels">>,
    <<"/", "auth", "/", "login">>, <<"auth", "/", "login">> }

FetchOpts ==
  { NoOpts,
    Opts("GET", TRUE, [Authorization |-> <<"Basic", " ", "caller">>], FALSE) }

\* ---- the transport
SocketIds == 1..Len(sockets)

WithState(s, i, st) == [s EXCEPT !.sockets[i].state = st]

WSOpen ==
  \E i \in SocketIds :
    /\ sockets[i].state = "connecting"
    /\ UNCHANGED constructed
    /\ IF sockets[i].attached
       THEN Commit(onWSOpen(WithState(This, i, "open")), "open", i)
       ELSE Commit(WithState(This, i, "open"), "unheard open", i)

WSMessage ==
  \E i \in SocketIds, frame \in Frames :
    /\ sockets[i].state \in {"open", "closing"}
    /\ UNCHANGED constructed
    /\ IF sockets[i].attached
       THEN Commit(onWSMessage(This, frame), "message", frame)
       ELSE Commit(This, "unheard message", frame)

\* a failing socket dispatches error once; only its close event follows
WSError ==
  \E i \in SocketIds :
    /\ sockets[i].state \in {"connecting", "open", "closing"}
    /\ UNCHANGED constructed
    /\ IF sockets[i].attached
       THEN Commit(onWSError(WithState(This, i, "failed")), "error", i)
       ELSE Commit(WithState(This, i, "failed"), "unheard error", i)

WSClose ==
  \E i \in SocketIds :
    /\ sockets[i].state # "closed"
    /\ UNCHANGED constructed
    /\ IF sockets[i].attached
       THEN Commit(onWSClose(WithState(This, i, "closed")), "close", i)
       ELSE Commit(WithState(This, i, "closed"), "unheard close", i)

\* the promise of a pending login request settles
LoginSettles ==
  \E resp \in LoginResponses :
    /\ pendingLogins > 0
    /\ UNCHANGED constructed
    /\ Commit(LoginSettled(This, resp), "login", resp)

\* ---- the callers
SetAuthenticated ==
  \E tok \in Tokens, kind \in Kinds :
    /\ constructed
    /\ UNCHANGED constructed
    /\ Commit(setAuthenticated(This, tok, kind), "setAuthenticated",
              [kind |-> kind, token |-> tok])

Send ==
  \E data \in SendData :
    /\ constructed
    /\ UNCHANGED constructed
    /\ Commit(send(This, data), "send", data)

Fetch ==
  \E path \in FetchPaths, opts \in FetchOpts :
    /\ constructed
    /\ UNCHANGED constructed
    /\ Commit(fetch(This, path, opts), "fetch", [path |-> path, opts |-> opts])

Next ==
  \/ Construct
  \/ Reconnect
  \/ Disconnect
  \/ SetAuthenticated
  \/ Send
  \/ Fetch
  \/ LoginSettles
  \/ WSOpen
  \/ WSMessage
  \/ WSError
  \/ WSClose

Spec == Init /\ [][Next]_vars

\* ================================================================ claims
\* the fields of the manager and the transport objects it holds
fields == <<shouldDisconnect, connected, socket, lastMessage, isConnecting,
            fetchReady, authenticated, retries, connection, self, token,
            hasListeners, sockets, pendingLogins, loginsIssued>>

\* a login request is issued or a socket is created in this step
NewLogin == loginsIssued' > loginsIssued
NewStream == Len(sockets') > Len(sockets)

HeaderOf(headers, name) ==
  IF name \in DOMAIN headers THEN headers[name] ELSE <<>>

\* C1: once maxRetries (>= 1) transport errors/closes have been counted and
\* disconnect() has not been called, no step issues a login request or
\* creates a stream any more.
C1_NoAttemptAfterMaxRetries ==
  [][ ( /\ constructed
        /\ options.maxRetries >= 1
        /\ retries' >= options.maxRetries
        /\ ~hist'.disconnectCalled )
      => (~NewLogin /\ ~NewStream) ]_vars

\* C2: once disconnect() has been called, a handled transport close leaves
\* isConnecting false and the stream handle null, issues no login request,
\* opens no stream and releases the listeners.
C2_NoReconnectAfterDisconnect ==
  [][ (hist.disconnectCalled /\ last'.op = "close")
      => ( /\ isConnecting' = FALSE
           /\ socket' = NullSocket
           /\ ~NewLogin /\ ~NewStream
           /\ last'.out.requests = <<>>
           /\ hasListeners' = FALSE ) ]_vars

\* a close was handled after disconnect() and only the disconnect intent
\* stopped the reconnect decision
C2_Witness ==
  /\ hist.disconnectCalled
  /\ last.op = "close"
  /\ hasListeners = FALSE
  /\ options.reconnect = TRUE
  /\ retries # options.maxRetries

\* C3: an object sent while connected and authenticated reaches the socket
\* as JSON text with all its fields and a token field equal to the held
\* credential's token.
C3_SendInjectsToken ==
  ( /\ last.op = "send"
    /\ last.arg.t = "obj"
    /\ last.arg.cyclic = FALSE
    /\ connected = TRUE /\ socket # NullSocket
    /\ authenticated = TRUE )
  => ( /\ Len(last.out.sent) = 1
       /\ LET frame == last.out.sent[1]
          IN /\ frame.t = "str" /\ frame.valid
             /\ IsObject(frame.val)
             /\ \A k \in DOMAIN last.arg.f \ {"token"} :
                   Get(frame.val, k) = last.arg.f[k]
             /\ Get(frame.val, "token") = token.token )

\* C4: send() while connected is false or the stream handle is null returns
\* the not-connected rejection, does not throw, hands nothing to the
\* socket, emits nothing and changes no field.
C4_SendNotConnectedRejects ==
  [][ (last'.op = "send" /\ (connected # TRUE \/ socket = NullSocket))
      => ( /\ last'.out.result = "rejected: Not connected to WebSocket"
           /\ last'.out.sent = <<>>
           /\ last'.out.emits = <<>>
           /\ last'.out.requests = <<>>
           /\ last'.out.closes = <<>>
           /\ UNCHANGED fields ) ]_vars

C4_Witness ==
  /\ last.op = "send"
  /\ connected = FALSE
  /\ last.out.result = "rejected: Not connected to WebSocket"

\* the login response is, in the claim's terms, a success without a type: an
\* object with a token and no non-empty string type
LoginWithoutType(resp) ==
  /\ ~resp.failed /\ resp.ok
  /\ resp.body.t = "obj"
  /\ "token" \in DOMAIN resp.body.f
  /\ ~("type" \in DOMAIN resp.body.f /\ resp.body.f["type"] \notin {Null, ""})

DefaultLabel ==
  IF options.bearerTokenPrefix = Undefined THEN "Bearer"
  ELSE options.bearerTokenPrefix

PathIsLogin(path) ==
  \E i \in 1..(Len(path) - 2) :
     path[i] = "auth" /\ path[i + 1] = "/" /\ path[i + 2] = "login"

\* the Authorization header of the request issued by the last fetch()
LastAuthorization == HeaderOf(last.out.requests[1].headers, "Authorization")
\* the Authorization header the caller of the last fetch() supplied
CallerAuthorization ==
  IF last.arg.opts.given /\ last.arg.opts.hasHeaders
  THEN HeaderOf(last.arg.opts.headers, "Authorization") ELSE <<>>

\* a login response without type sets the credential to the default label
\* and the response's token
C5_LoginSetsDefaultCredential ==
  (last'.op = "login" /\ LoginWithoutType(last'.arg))
  => token' = [kind |-> DefaultLabel, token |-> last'.arg.body.f["token"]]

\* no request to the login path has an Authorization header injected
C5_LoginPathNotEnriched ==
  /\ last.op = "fetch" /\ PathIsLogin(last.arg.path)
       => LastAuthorization = CallerAuthorization
  /\ last.op # "fetch"
       => \A i \in 1..Len(last.out.requests) :
             "Authorization" \notin DOMAIN last.out.requests[i].headers

\* C5 as stated: after a login without type (token T) and before any
\* listener cleanup, every fetch() to a path other than the login path
\* carries Authorization '<default label> T'.
C5_FetchCarriesLoginToken_Original ==
  (last.op = "fetch" /\ hist.loginTok # "" /\ ~PathIsLogin(last.arg.path))
  => LastAuthorization = <<DefaultLabel, " ", hist.loginTok>>

\* C5 (amended): a login response with token T and no non-empty string type
\* sets the credential to {default label, T}; every later fetch() to a path
\* other than the login path, issued before any listener cleanup and before
\* a later login success or setAuthenticated() sets the credential again,
\* carries Authorization '<default label> T'; a fetch() to the login path
\* never has an Authorization header injected.
C5_FetchCarriesHeldCredential ==
  /\ [][C5_LoginSetsDefaultCredential]_vars
  /\ [](C5_LoginPathNotEnriched)
  /\ []( ( /\ last.op = "fetch"
           /\ hist.loginTok # "" /\ ~hist.replaced
           /\ ~PathIsLogin(last.arg.path) )
         => LastAuthorization = <<DefaultLabel, " ", hist.loginTok>> )

C5_Witness ==
  /\ last.op = "fetch"
  /\ hist.loginTok = "abc" /\ ~hist.replaced
  /\ ~PathIsLogin(last.arg.path)
  /\ CallerAuthorization # <<>>
  /\ LastAuthorization = <<DefaultLabel, " ", "abc">>

\* the value an inbound frame parses to (the frame itself when it is not a
\* string or does not parse)
ParsedFrame(frame) ==
  IF frame.t = "str" /\ frame.valid THEN frame.val ELSE frame
HasHandshakeKeys(d) ==
  d.t = "obj" /\ {"name", "version", "roles"} \subseteq DOMAIN d.f
SelfField(d) == IF "self" \in DOMAIN d.f THEN d.f["self"] ELSE Undefined

\* C6 as stated: a frame with the keys name, version and roles sets
\* ConnectionInfo and self and emits connectionInfo, self, message once
\* each, in that order; any other frame emits only message and leaves
\* ConnectionInfo and self unchanged.
C6_HandshakeEmitsAll_Original ==
  [][ last'.op = "message" =>
        LET d == ParsedFrame(last'.arg)
        IN IF HasHandshakeKeys(d)
           THEN /\ connection' = d
                /\ self' = SelfField(d)
                /\ last'.out.emits = <<"connectionInfo", "self", "message">>
           ELSE /\ last'.out.emits = <<"message">>
                /\ UNCHANGED <<connection, self>> ]_vars

\* C6 (amended): as stated, except that a handshake frame whose self field
\* is null emits only connectionInfo and message (self is still set).
C6_HandshakeEmits ==
  [][ last'.op = "message" =>
        LET d == ParsedFrame(last'.arg)
        IN IF HasHandshakeKeys(d)
           THEN /\ connection' = d
                /\ self' = SelfField(d)
                /\ last'.out.emits =
                     IF SelfField(d) = Null
                     THEN <<"connectionInfo", "message">>
                     ELSE <<"connectionInfo", "self", "message">>
           ELSE /\ last'.out.emits = <<"message">>
                /\ UNCHANGED <<connection, self>> ]_vars

C6_Witness ==
  /\ last.op = "message"
  /\ HasHandshakeKeys(ParsedFrame(last.arg))
  /\ self = "vessels.urn:mrn:imo:mmsi:1234"
  /\ connection = ParsedFrame(last.arg)
  /\ last.out.emits = <<"connectionInfo", "self", "message">>

\* C7: once a reconnect decision has stopped and released the listeners,
\* the manager is idle (not connecting, not connected, no stream handle, no
\* login in flight) and no later step issues a login request, creates a
\* stream or changes isConnecting, connected or the stream handle.
C7_TerminalStopIsAbsorbing ==
  /\ [](hist.stopped =>
          ( /\ isConnecting = FALSE /\ connected = FALSE
            /\ socket = NullSocket /\ pendingLogins = 0 ))
  /\ [][ hist.stopped =>
          ( /\ ~NewLogin /\ ~NewStream
            /\ isConnecting' = FALSE /\ connected' = FALSE
            /\ socket' = NullSocket ) ]_vars

\* reconnect() was called after a stop caused by the disconnect intent
C7_Witness ==
  /\ hist.stopped
  /\ last.op = "reconnect"
  /\ shouldDisconnect = TRUE
  /\ options.reconnect = TRUE
  /\ retries # options.maxRetries
  /\ isConnecting = FALSE /\ socket = NullSocket

\* the login response is, in the claim's terms, a failure
LoginFailure(resp) ==
  \/ resp.failed
  \/ ~resp.ok
  \/ ~(resp.body.t = "obj" /\ "token" \in DOMAIN resp.body.f)

\* C8: a failed login emits error exactly once, creates no stream, leaves
\* the credential and fetchReady as they were (fetchReady false), and no
\* login request is issued after a failure.
C8_LoginFailureSurfacesError ==
  /\ [][ (last'.op = "login" /\ LoginFailure(last'.arg))
         => ( /\ last'.out.emits = <<"error">>
              /\ ~NewStream /\ socket' = NullSocket
              /\ token' = token /\ authenticated' = authenticated
              /\ fetchReady' = FALSE
              /\ last'.out.requests = <<>> /\ ~NewLogin ) ]_vars
  /\ [][ hist.loginFailed => (~NewLogin /\ ~NewStream) ]_vars

C8_Witness ==
  /\ last.op = "login"
  /\ LoginFailure(last.arg)
  /\ last.arg.ok /\ last.arg.body.t = "obj"
  /\ last.out.emits = <<"error">>
  /\ sockets = <<>>

\* C9: disconnect() sets shouldDisconnect, requests the close of the stream
\* when one is open, and leaves connected, the stream handle and the retry
\* counter as they were.
C9_DisconnectOnlyRequestsClose ==
  [][ last'.op = "disconnect"
      => ( /\ shouldDisconnect' = TRUE
           /\ (connected = TRUE =>
                 /\ last'.out.closes = <<socket>>
                 /\ sockets'[socket].state # "open")
           /\ connected' = connected
           /\ socket' = socket
           /\ retries' = retries ) ]_vars

C9_Witness ==
  /\ last.op = "disconnect"
  /\ connected = TRUE
  /\ last.out.closes = <<socket>>
  /\ sockets[socket].state = "closing"

\* sockets that have not closed or still carry the manager's listeners
LiveSockets ==
  {i \in 1..Len(sockets) : sockets[i].state # "closed" \/ sockets[i].attached}

\* C10: pending login requests and live sockets never number more than one
\* in total (the stream handle, when set, is that one socket); reconnect()
\* while isConnecting is true changes nothing and starts nothing; a socket
\* is only created when the stream handle is null (it was null before the
\* handler ran, or the close handler that creates it has just released it)
\* and every earlier socket has closed.
C10_AtMostOneAttemptInFlight ==
  /\ []( /\ pendingLogins + Cardinality(LiveSockets) <= 1
         /\ socket # NullSocket => LiveSockets = {socket} )
  /\ [][ (last'.op = "reconnect" /\ isConnecting = TRUE)
         => (UNCHANGED fields /\ last'.out = NoEffects) ]_vars
  /\ [][ NewStream =>
          ( /\ socket = NullSocket \/ last'.op = "close"
            /\ Len(sockets') = Len(sockets) + 1
            /\ socket' = Len(sockets')
            /\ \A i \in 1..Len(sockets) :
                  sockets'[i].state = "closed" /\ ~sockets'[i].attached ) ]_vars

\* reconnect() was called while a login request was in flight
C10_Witness ==
  /\ last.op = "reconnect"
  /\ isConnecting = TRUE
  /\ pendingLogins = 1
  /\ loginsIssued = 1

\* the step handled a transport error or close
CountedEvent == last'.op \in {"error", "close"}

\* C11: the retry counter is 0 at construction; a handled transport error
\* or close adds exactly 1 (so an error and the close of the same stream add
\* 2) and no other step changes it.
C11_RetriesCountTransportEvents ==
  /\ [](~constructed => retries = 0)
  /\ [][ retries' = retries + (IF CountedEvent THEN 1 ELSE 0) ]_vars

\* the first socket dispatched error and then close: two counts
C11_Witness ==
  /\ last.op = "close" /\ last.arg = 1
  /\ retries = 2

\* The step holds a non-initial reconnect decision that reaches the stop
\* checks: reconnect() or disconnect() called while not connecting and
\* without a stream handle, or a handled close (which clears both first).
\* The retry counter at the decision is retries'.
DecisionStep ==
  \/ last'.op \in {"reconnect", "disconnect"}
       /\ isConnecting = FALSE /\ socket = NullSocket
  \/ last'.op = "close"
\* the disconnect intent at the decision
IntentAtDecision == last'.op = "disconnect" \/ shouldDisconnect = TRUE
HitMaxEmitted == \E i \in 1..Len(last'.out.emits) : last'.out.emits[i] = "hitMaxRetries"

\* C12: hitMaxRetries is emitted exactly in the steps that hold a
\* non-initial reconnect decision taken with retries = maxRetries; a
\* decision taken with retries > maxRetries, reconnect not disabled and no
\* disconnect intent starts a connection attempt.
C12_ExhaustionIsExactEquality ==
  /\ [][ HitMaxEmitted <=> (DecisionStep /\ retries' = options.maxRetries) ]_vars
  /\ [][ ( /\ DecisionStep
           /\ retries' > options.maxRetries
           /\ options.reconnect # FALSE
           /\ ~IntentAtDecision )
         => ( /\ isConnecting' = TRUE
              /\ NewLogin \/ NewStream
              /\ ~last'.out.released ) ]_vars

\* a close handled with the counter already past the limit started an attempt
C12_Witness ==
  /\ last.op = "close"
  /\ retries > options.maxRetries
  /\ isConnecting = TRUE
  /\ last.out.released = FALSE

\* C13: a non-initial reconnect decision taken with retries = maxRetries
\* emits hitMaxRetries while the listeners are still registered and then
\* releases them, also when reconnect is disabled or disconnect() was
\* requested; a decision taken with another count does not emit it.
C13_RetryCheckComesFirst ==
  [][ DecisionStep =>
        IF retries' = options.maxRetries
        THEN /\ last'.out.emits[Len(last'.out.emits)] = "hitMaxRetries"
             /\ hasListeners =>
                  last'.out.delivered[Len(last'.out.delivered)] = "hitMaxRetries"
             /\ last'.out.released /\ hasListeners' = FALSE
             /\ ~NewLogin /\ ~NewStream
        ELSE ~HitMaxEmitted ]_vars

\* exhaustion was signalled although reconnect is disabled and disconnect()
\* had been requested
C13_Witness ==
  /\ last.op = "close"
  /\ retries = options.maxRetries
  /\ options.reconnect = FALSE
  /\ shouldDisconnect = TRUE
  /\ last.out.delivered = <<"disconnect", "hitMaxRetries">>

\* C14: whatever the options, the constructor leaves the manager connecting
\* with exactly one attempt started: a login request in flight and no
\* socket when authentication is enabled, one connecting socket and no
\* login request when it is disabled; it emits no hitMaxRetries and
\* releases no listeners.
C14_ConstructionStartsOneAttempt ==
  [][ last'.op = "constructor" =>
        ( /\ isConnecting' = TRUE
          /\ IF options.useAuthentication = FALSE
             THEN /\ pendingLogins' = 0 /\ loginsIssued' = 0
                  /\ Len(sockets') = 1 /\ socket' = 1
                  /\ sockets'[1].state = "connecting"
             ELSE /\ pendingLogins' = 1 /\ loginsIssued' = 1
                  /\ Len(last'.out.requests) = 1
                  /\ sockets' = <<>> /\ socket' = NullSocket
          /\ ~HitMaxEmitted
          /\ ~last'.out.released /\ hasListeners' = TRUE ) ]_vars

\* construction with maxRetries = 0 and reconnect disabled
C14_Witness ==
  /\ last.op = "constructor"
  /\ options.maxRetries = 0
  /\ options.reconnect = FALSE
  /\ isConnecting = TRUE

\* the step holds a reconnect decision that observes the disconnect intent
\* and stops
IntentStopStep ==
  /\ DecisionStep
  /\ IntentAtDecision
  /\ last'.out.released

\* C15 as stated: after the decision that observes the disconnect intent
\* and stops, shouldDisconnect is false.
C15_IntentConsumed_Original ==
  [][ IntentStopStep => shouldDisconnect' = FALSE ]_vars

\* C15 (amended): the decision that observes the disconnect intent and
\* stops leaves shouldDisconnect true; shouldDisconnect is cleared only by
\* a reconnect that starts a connection attempt.
C15_IntentSurvivesStop ==
  /\ [][ IntentStopStep => shouldDisconnect' = TRUE ]_vars
  /\ [][ (shouldDisconnect = TRUE /\ shouldDisconnect' = FALSE)
         => (isConnecting' = TRUE /\ (NewLogin \/ NewStream)) ]_vars

C15_Witness ==
  /\ hist.disconnectCalled
  /\ last.op = "close"
  /\ last.out.released
  /\ options.reconnect = TRUE
  /\ retries # options.maxRetries
  /\ shouldDisconnect = TRUE

\* C16: a listener cleanup leaves the credential at the sentinel and
\* authenticated false; after a cleanup and until a login success or
\* setAuthenticated(), fetch() injects no Authorization header; the
\* credential changes only in a login, setAuthenticated() or cleanup step.
C16_CleanupClearsCredential ==
  /\ [][ last'.out.released
         => (token' = EmptyToken /\ authenticated' = FALSE) ]_vars
  /\ []( ( /\ last.op = "fetch"
           /\ hist.stopped /\ hist.loginTok = "" /\ ~hist.replaced )
         => LastAuthorization = CallerAuthorization )
  /\ [][ token' # token
         => (last'.op \in {"login", "setAuthenticated"} \/ last'.out.released) ]_vars

\* a fetch() after a cleanup that followed a successful login
C16_Witness ==
  /\ last.op = "fetch"
  /\ hist.stopped /\ hist.loginTok = "" /\ ~hist.replaced
  /\ options.useAuthentication = TRUE /\ Len(sockets) >= 1
  /\ ~PathIsLogin(last.arg.path)
  /\ LastAuthorization = <<>>

\* C17: setAuthenticated(token, kind) sets the credential to {kind, token}
\* and authenticated to true, emits fetchReady once and nothing else,
\* issues no request, creates and closes no socket, and leaves every other
\* field as it was.
C17_SetAuthenticatedOnlySetsCredential ==
  [][ last'.op = "setAuthenticated" =>
        ( /\ token' = [kind |-> last'.arg.kind, token |-> last'.arg.token]
          /\ authenticated' = TRUE
          /\ last'.out.emits = <<"fetchReady">>
          /\ last'.out.requests = <<>> /\ last'.out.closes = <<>>
          /\ ~last'.out.released
          /\ UNCHANGED <<isConnecting, connected, shouldDisconnect, socket,
                         retries, sockets, pendingLogins, loginsIssued,
                         fetchReady, hasListeners>> ) ]_vars

C17_Witness ==
  /\ last.op = "setAuthenticated"
  /\ connected = TRUE
  /\ token = [kind |-> "JWT", token |-> "xyz"]
  /\ authenticated = TRUE

\* C18: while connected is true a stream handle exists and isConnecting is
\* false; connected turns true only in a handled open, turns false only in
\* the handled close of the stream the handle refers to, is false after
\* every handled close and is left as it was by a handled error.
C18_ConnectedBetweenOpenAndClose ==
  /\ [](connected = TRUE => (socket # NullSocket /\ isConnecting = FALSE))
  /\ [][ (connected = FALSE /\ connected' = TRUE) => last'.op = "open" ]_vars
  /\ [][ last'.op = "open" => connected' = TRUE ]_vars
  /\ [][ (connected = TRUE /\ connected' = FALSE)
         => (last'.op = "close" /\ last'.arg = socket) ]_vars
  /\ [][ last'.op = "close" => connected' = FALSE ]_vars
  /\ [][ last'.op = "error" => connected' = connected ]_vars

\* an error was handled on the open stream and connected is still true
C18_Witness ==
  /\ last.op = "error"
  /\ connected = TRUE
  /\ socket # NullSocket
  /\ sockets[socket].state = "failed"

\* the login response is, in the claim's terms, a success
LoginSuccess(resp) ==
  /\ ~resp.failed /\ resp.ok
  /\ resp.body.t = "obj"
  /\ "token" \in DOMAIN resp.body.f

\* C19: disconnect() while isConnecting is true requests no close and
\* changes nothing but shouldDisconnect; a login that succeeds while
\* shouldDisconnect is true still creates the stream, and that stream's
\* open still marks the manager connected, shouldDisconnect staying true.
C19_DisconnectDoesNotCancelAttempt ==
  /\ [][ (last'.op = "disconnect" /\ isConnecting = TRUE)
         => ( /\ last'.out.closes = <<>>
              /\ ~last'.out.released
              /\ shouldDisconnect' = TRUE
              /\ UNCHANGED <<isConnecting, connected, socket, sockets,
                             pendingLogins, loginsIssued, retries, token,
                             authenticated, fetchReady, hasListeners>> ) ]_vars
  /\ [][ (last'.op = "login" /\ LoginSuccess(last'.arg) /\ shouldDisconnect = TRUE)
         => ( /\ NewStream
              /\ socket' = Len(sockets')
              /\ sockets'[socket'].state = "connecting"
              /\ isConnecting' = TRUE
              /\ shouldDisconnect' = TRUE ) ]_vars
  /\ [][ (last'.op = "open" /\ shouldDisconnect = TRUE)
         => (connected' = TRUE /\ shouldDisconnect' = TRUE) ]_vars

\* disconnect() was called during the login of the first attempt, and the
\* stream opened all the same
C19_Witness ==
  /\ last.op = "open"
  /\ options.useAuthentication = TRUE
  /\ retries = 0
  /\ connected = TRUE
  /\ shouldDisconnect = TRUE

\* C20: after a failed login the manager stays connecting without a stream
\* handle: reconnect() changes nothing, disconnect() changes only
\* shouldDisconnect, no login request is issued and no socket created, no
\* hitMaxRetries is emitted, the listeners are never released and the
\* credential changes only through setAuthenticated().
C20_FailedLoginLeavesManagerStuck ==
  /\ [](hist.loginFailed =>
          ( /\ isConnecting = TRUE /\ socket = NullSocket
            /\ connected = FALSE /\ pendingLogins = 0
            /\ ~hist.stopped /\ hasListeners = TRUE ))
  /\ [][ hist.loginFailed =>
          ( /\ isConnecting' = TRUE /\ socket' = NullSocket
            /\ ~NewLogin /\ ~NewStream
            /\ ~HitMaxEmitted
            /\ ~last'.out.released
            /\ last'.op = "reconnect" => (UNCHANGED fields /\ last'.out = NoEffects)
            /\ last'.op = "disconnect" =>
                 ( /\ last'.out = NoEffects
                   /\ UNCHANGED <<connected, socket, lastMessage, isConnecting,
                                  fetchReady, authenticated, retries, connection,
                                  self, token, hasListeners, sockets,
                                  pendingLogins, loginsIssued>> )
            /\ token' # token => last'.op = "setAuthenticated" ) ]_vars

\* disconnect() was called after a failed login and was dropped
C20_Witness ==
  /\ hist.loginFailed
  /\ last.op = "disconnect"
  /\ isConnecting = TRUE
  /\ shouldDisconnect = TRUE
  /\ hasListeners = TRUE
====
